---- MODULE Spec2Model ----
(***************************************************************************)
(* Model of src/src/fetch_bc_date.py: the fetch-aggregate-export pipeline  *)
(* of main() and the pure helpers it calls.                                *)
(*                                                                         *)
(* Text.  A Python str that the program inspects character by character    *)
(* (company names, API names, sheet names, the base URL) is a sequence of  *)
(* one-character strings; Str joins such a sequence into a TLA+ string, so *)
(* formatted text (labels, the status line) is built with \o exactly as    *)
(* the f-strings build it.  The two glyphs that open the status line are   *)
(* outside the character set of the tools and are written "X " and "V ".   *)
(***************************************************************************)
EXTENDS Naturals, Sequences, FiniteSets, TLC

VARIABLES
    config,       \* the loaded configuration (parse_args_and_load_config)
    pc,           \* position of main()
    error,        \* the exception main() terminated with, or "none"
    companies,    \* main's local `companies`
    apis,         \* main's local `apis`
    ci, ai,       \* positions of the two for loops (1-based)
    requests,     \* the calls made to api.get, each with what it returned/raised
    results,      \* the ProcessingResults instance
    sheets,       \* main's local `sheets`: sheet name -> DataFrame
    log,          \* the lines handed to the logger
    workbook,     \* the Excel file on disk
    summaryFile,  \* the bc-fetch-summary_<ts>.json file on disk
    ioFault,      \* whether the environment failed the workbook write
    step,         \* position of the sheet-name derivation run
    name,         \* its input string
    derived,      \* _safe_sheet_name(name)
    rederived     \* _safe_sheet_name(derived)

runVars == <<config, pc, error, companies, apis, ci, ai, requests, results,
             sheets, log, workbook, summaryFile, ioFault>>
nameVars == <<step, name, derived, rederived>>
vars == <<runVars, nameVars>>

----------------------------------------------------------------------------
(* Bounds of the model *)

MaxCompanies == 2   \* longest configured company list
MaxApis == 2        \* longest configured API list
MaxPairs == 4       \* most (company, API) pairs of one run
MaxRows == 2        \* most records in one payload
PadLen == 28        \* length of the long company name
MaxTail == 3        \* free characters of a sheet-name input

----------------------------------------------------------------------------
(* Text helpers *)

RECURSIVE Str(_)
Str(s) == IF s = <<>> THEN "" ELSE Head(s) \o Str(Tail(s))

Pad(n) == [i \in 1..n |-> "L"]

\* str.rstrip('/')
RECURSIVE rstrip(_)
rstrip(s) ==
    IF s # <<>> /\ s[Len(s)] = "/" THEN rstrip(SubSeq(s, 1, Len(s) - 1)) ELSE s

----------------------------------------------------------------------------
(* _safe_sheet_name *)

invalid == {":", "\\", "/", "?", "*", "[", "]"}

MaxSheetLen == 31

\* A deletion loop that steps over the character following each deletion.
RECURSIVE SkipClean(_)
SkipClean(s) ==
    IF s = <<>> THEN <<>>
    ELSE IF Head(s) \in invalid
         THEN IF Len(s) = 1 THEN <<>> ELSE <<s[2]>> \o SkipClean(SubSeq(s, 3, Len(s)))
         ELSE <<Head(s)>> \o SkipClean(Tail(s))

safe_sheet_name_skip(s) ==
    LET cleaned == SkipClean(s)
    IN  IF Len(cleaned) > MaxSheetLen THEN SubSeq(cleaned, 1, MaxSheetLen) ELSE cleaned

\* Cutting before cleaning.
safe_sheet_name_cut_first(s) ==
    LET cut == IF Len(s) > MaxSheetLen THEN SubSeq(s, 1, MaxSheetLen) ELSE s
    IN  SelectSeq(cut, LAMBDA ch : ch \notin invalid)

_safe_sheet_name(s) ==
    LET cleaned == SelectSeq(s, LAMBDA ch : ch \notin invalid)
    IN  IF Len(cleaned) > MaxSheetLen THEN SubSeq(cleaned, 1, MaxSheetLen) ELSE cleaned

----------------------------------------------------------------------------
(* _build_bc_url *)

BaseUrl == <<"h", ":", "/", "/", "b", "c", "/">>   \* config['global']['api-base-url']
ApiVersion == "v2.0"                                \* config['global']['api-version']
TenantId == "t1"                                    \* config['global']['tenant-id']
EnvironmentName == "TestSE"                         \* bc['environment-name']

_build_bc_url(environment_name, company, api_name) ==
    Str(rstrip(BaseUrl)) \o "/" \o ApiVersion \o "/" \o TenantId \o "/"
        \o environment_name \o "/ODataV4/" \o "Company('" \o Str(company) \o "')/"
        \o Str(api_name)

----------------------------------------------------------------------------
(* Payloads, normalisation, _to_dataframe *)

Rows(n) == [i \in 1..n |-> [id |-> i]]

RowSets == {Rows(0), Rows(MaxRows)}

\* What api.get can return: a dict with or without 'value', a list, None.
Payloads ==
    {[type |-> "dict", hasValue |-> TRUE, value |-> r, items |-> <<>>] : r \in RowSets}
    \cup {[type |-> "dict", hasValue |-> FALSE, value |-> <<>>, items |-> <<>>]}
    \cup {[type |-> "list", hasValue |-> FALSE, value |-> <<>>, items |-> r] : r \in RowSets}
    \cup {[type |-> "none", hasValue |-> FALSE, value |-> <<>>, items |-> <<>>]}

\* What api.get can raise: the classes the raised exception is an instance of
\* (besides Exception).
Raised ==
    { {"ApiAuthenticationError", "ApiError"}, {"ApiTimeoutError", "ApiError"},
      {"ApiError"}, {} }

Replies ==
    {[raises |-> TRUE, isa |-> e, payload |-> <<>>] : e \in Raised}
    \cup {[raises |-> FALSE, isa |-> {}, payload |-> p] : p \in Payloads}

\* payload.get('value') if isinstance(payload, dict) else None
ValueOf(payload) ==
    IF payload.type = "dict" /\ payload.hasValue
    THEN [isNone |-> FALSE, list |-> payload.value]
    ELSE [isNone |-> TRUE, list |-> <<>>]

\* `dict.get('value', [])` in place of the None test and the list fallback.
RecordsValueOnly(payload) ==
    IF payload.type = "dict" /\ payload.hasValue THEN payload.value ELSE <<>>

\* The records main() hands to _to_dataframe.
Records(payload) ==
    LET records == ValueOf(payload)
    IN  IF records.isNone
        THEN IF payload.type = "list" THEN payload.items ELSE <<>>
        ELSE records.list

\* Whether main() logs the "Unexpected response format" warning.
ShapeWarning(payload) == ValueOf(payload).isNone

_to_dataframe(records) ==
    IF records = <<>>
    THEN [columns |-> {"_no_rows"}, rows |-> <<>>]
    ELSE [columns |-> UNION {DOMAIN records[i] : i \in DOMAIN records}, rows |-> records]

----------------------------------------------------------------------------
(* ProcessingResults *)

NewResults == [created |-> <<>>, updated |-> <<>>, failed |-> <<>>, expected_errors |-> 0]

summary(r) ==
    LET total_success == Len(r.created) + Len(r.updated)
        expected_note ==
            IF r.expected_errors > 0
            THEN " (" \o ToString(r.expected_errors) \o " handled expected duplicates)"
            ELSE ""
    IN  IF r.failed # <<>>
        THEN "X Completed with " \o ToString(Len(r.failed)) \o " failures: "
             \o ToString(Len(r.created)) \o " created, " \o ToString(Len(r.updated))
             \o " updated, " \o ToString(Len(r.failed)) \o " failed"
        ELSE "V All " \o ToString(total_success) \o " operations successful: "
             \o ToString(Len(r.created)) \o " created, " \o ToString(Len(r.updated))
             \o " updated" \o expected_note

----------------------------------------------------------------------------
(* Configurations *)

CompanyPool == {<<"A">>, <<"A", ":">>, Pad(PadLen)}

ApiPool == {<<"X", "a">>, <<"X", "b">>}

\* Ordered lists without repetition, the empty list included.
Lists(pool, max) ==
    {s \in UNION {[1..n -> pool] : n \in 0..max} :
        \A i, j \in DOMAIN s : i # j => s[i] # s[j]}

Configs ==
    {[keys |-> k, companies |-> c, apis |-> a] :
        k \in BOOLEAN,
        c \in Lists(CompanyPool, MaxCompanies),
        a \in Lists(ApiPool, MaxApis)}

EnvLabel == "Test"   \* config['_env_type'].title()

Context(company, api_name) ==
    "[" \o EnvLabel \o "/" \o Str(company) \o "/" \o Str(api_name) \o "]"

Label(company, api_name) ==
    "BusinessCentral/" \o Str(company) \o "/" \o Str(api_name)

SheetKey(company, api_name) == _safe_sheet_name(company \o <<"_", "_">> \o api_name)

Line(level, text) == [level |-> level, text |-> text]

----------------------------------------------------------------------------
(* main(): configuration *)

Init ==
    /\ config \in {c \in Configs : Len(c.companies) * Len(c.apis) <= MaxPairs}
    /\ pc = "start"
    /\ error = "none"
    /\ companies = <<>>
    /\ apis = <<>>
    /\ ci = 1
    /\ ai = 1
    /\ requests = <<>>
    /\ results = NewResults
    /\ sheets = <<>>
    /\ log = <<>>
    /\ workbook = [written |-> FALSE, sheets |-> <<>>]
    /\ summaryFile = [written |-> FALSE, companies |-> <<>>, apis |-> <<>>,
                      created |-> <<>>, failed |-> <<>>]
    /\ ioFault = FALSE
    /\ step = "idle"
    /\ name = <<>>
    /\ derived = <<>>
    /\ rederived = <<>>

\* A required key is absent: KeyError -> ConfigurationError.
MissingKey ==
    /\ pc = "start"
    /\ ~config.keys
    /\ pc' = "failed"
    /\ error' = "ConfigurationError"
    /\ UNCHANGED <<config, companies, apis, ci, ai, requests, results, sheets, log,
                   workbook, summaryFile, ioFault, nameVars>>

\* `if not companies or not apis: raise HelpfulError(...)`
EmptyLists ==
    /\ pc = "start"
    /\ config.keys
    /\ config.companies = <<>> \/ config.apis = <<>>
    /\ pc' = "failed"
    /\ error' = "HelpfulError"
    /\ companies' = config.companies
    /\ apis' = config.apis
    /\ UNCHANGED <<config, ci, ai, requests, results, sheets, log,
                   workbook, summaryFile, ioFault, nameVars>>

\* Validation passes; results and sheets are created and the loops are entered.
LoadConfig ==
    /\ pc = "start"
    /\ config.keys
    /\ config.companies # <<>>
    /\ config.apis # <<>>
    /\ companies' = config.companies
    /\ apis' = config.apis
    /\ results' = NewResults
    /\ sheets' = <<>>
    /\ ci' = 1
    /\ ai' = 1
    /\ pc' = "loop"
    /\ UNCHANGED <<config, error, requests, log, workbook, summaryFile, ioFault, nameVars>>

----------------------------------------------------------------------------
(* main(): the fetch loop *)

\* The inner loop over the companies.
NextPairApiMajor(c, a) ==
    IF c < Len(companies) THEN <<c + 1, a>> ELSE <<1, a + 1>>

\* `for company in companies: for api_name in apis:` -- the position after (c, a).
NextPair(c, a) ==
    IF a < Len(apis) THEN <<c, a + 1>> ELSE <<c + 1, 1>>

LastPair(c, a) == c = Len(companies) /\ a = Len(apis)

\* ApiError tested before its subclasses.
ReasonApiErrorFirst(isa) ==
    IF "ApiError" \in isa THEN "api error"
    ELSE IF "ApiAuthenticationError" \in isa THEN "auth failed"
    ELSE IF "ApiTimeoutError" \in isa THEN "timeout"
    ELSE "unexpected error"

\* The except clauses, in their order: the first that matches handles.
Reason(isa) ==
    IF "ApiAuthenticationError" \in isa THEN "auth failed"
    ELSE IF "ApiTimeoutError" \in isa THEN "timeout"
    ELSE IF "ApiError" \in isa THEN "api error"
    ELSE "unexpected error"

ErrorText(isa) ==
    IF "ApiAuthenticationError" \in isa THEN "Authentication error"
    ELSE IF "ApiTimeoutError" \in isa THEN "Timeout"
    ELSE IF "ApiError" \in isa THEN "API error"
    ELSE "Unexpected error"

\* `failed = [entry]` in place of failed.append(entry).
RecordFailedReplace(r, entry) == [r EXCEPT !.failed = <<entry>>]

\* results.failed.append(entry)
RecordFailed(r, entry) == [r EXCEPT !.failed = Append(@, entry)]

\* results.created.append(entry)
RecordCreated(r, entry) == [r EXCEPT !.created = Append(@, entry)]

\* A sheet stored under the API name alone.
PutSheetByApi(s, company, api_name, df) ==
    LET key == _safe_sheet_name(api_name)
    IN  [k \in DOMAIN s \cup {key} |-> IF k = key THEN df ELSE s[k]]

\* sheets[_safe_sheet_name(f"{company}__{api_name}")] = df
PutSheet(s, company, api_name, df) ==
    LET key == SheetKey(company, api_name)
    IN  [k \in DOMAIN s \cup {key} |-> IF k = key THEN df ELSE s[k]]

\* One pass of the loop body for the pair at (ci, ai), api.get answering `reply`.
FetchPair(reply) ==
    LET company == companies[ci]
        api_name == apis[ai]
        context == Context(company, api_name)
        url == _build_bc_url(EnvironmentName, company, api_name)
        get == Line("info", context \o " GET " \o url)
        records == Records(reply.payload)
        df == _to_dataframe(records)
        next == NextPair(ci, ai)
    IN  /\ pc = "loop"
        /\ requests' = Append(requests, [company |-> company, api_name |-> api_name,
                                         url |-> url, reply |-> reply])
        /\ IF reply.raises
           THEN /\ results' = RecordFailed(results,
                                  Label(company, api_name) \o ": " \o Reason(reply.isa))
                /\ log' = log \o <<get, Line("error", context \o " " \o ErrorText(reply.isa))>>
                /\ UNCHANGED sheets
           ELSE /\ sheets' = PutSheet(sheets, company, api_name, df)
                /\ results' = RecordCreated(results, Label(company, api_name))
                /\ log' = log \o <<get>>
                      \o (IF ShapeWarning(reply.payload)
                          THEN <<Line("warning", context
                                    \o " Unexpected response format; coercing to list")>>
                          ELSE <<>>)
                      \o <<Line("info", context \o " Retrieved "
                                    \o ToString(Len(df.rows)) \o " rows")>>
        /\ IF LastPair(ci, ai)
           THEN pc' = "write" /\ UNCHANGED <<ci, ai>>
           ELSE pc' = "loop" /\ ci' = next[1] /\ ai' = next[2]
        /\ UNCHANGED <<config, error, companies, apis, workbook, summaryFile, ioFault,
                       nameVars>>

----------------------------------------------------------------------------
(* main(): export and report *)

\* The with-block of pd.ExcelWriter.  Closing a writer to which no sheet was
\* written raises (openpyxl: "At least one sheet must be visible"), as does a
\* failing write; `except Exception` turns either into FileOperationError.
WriteExcel(fault) ==
    /\ pc = "write"
    /\ ioFault' = fault
    /\ IF fault \/ DOMAIN sheets = {}
       THEN /\ pc' = "failed"
            /\ error' = "FileOperationError"
            /\ UNCHANGED <<workbook, log>>
       ELSE /\ workbook' = [written |-> TRUE, sheets |-> sheets]
            /\ log' = Append(log, Line("info", "[" \o EnvLabel \o "/Excel/Write] Wrote"))
            /\ pc' = "report"
            /\ UNCHANGED error
    /\ UNCHANGED <<config, companies, apis, ci, ai, requests, results, sheets,
                   summaryFile, nameVars>>

\* data_handler.save(summary, ...) and logger.info(results.summary()).
Report ==
    /\ pc = "report"
    /\ summaryFile' = [written |-> TRUE, companies |-> companies, apis |-> apis,
                       created |-> results.created, failed |-> results.failed]
    /\ log' = Append(log, Line("summary", summary(results)))
    /\ pc' = "done"
    /\ UNCHANGED <<config, error, companies, apis, ci, ai, requests, results, sheets,
                   workbook, ioFault, nameVars>>

Next ==
    \/ MissingKey
    \/ EmptyLists
    \/ LoadConfig
    \/ \E reply \in Replies : FetchPair(reply)
    \/ \E fault \in BOOLEAN : WriteExcel(fault)
    \/ Report

Spec == Init /\ [][Next]_vars

----------------------------------------------------------------------------
(* _safe_sheet_name applied to arbitrary input, and to its own output *)

Alphabet == invalid \cup {"a"}

Tails == UNION {[1..n -> Alphabet] : n \in 0..MaxTail}

PadLens == {0} \cup (PadLen .. PadLen + 4)

NameInputs ==
    {Pad(n) \o t : n \in PadLens, t \in Tails} \cup {t \o Pad(n) : n \in PadLens, t \in Tails}

NameInit ==
    /\ config = [keys |-> FALSE, companies |-> <<>>, apis |-> <<>>]
    /\ pc = "idle"
    /\ error = "none"
    /\ companies = <<>>
    /\ apis = <<>>
    /\ ci = 1
    /\ ai = 1
    /\ requests = <<>>
    /\ results = NewResults
    /\ sheets = <<>>
    /\ log = <<>>
    /\ workbook = [written |-> FALSE, sheets |-> <<>>]
    /\ summaryFile = [written |-> FALSE, companies |-> <<>>, apis |-> <<>>,
                      created |-> <<>>, failed |-> <<>>]
    /\ ioFault = FALSE
    /\ step = "input"
    /\ name \in NameInputs
    /\ derived = <<>>
    /\ rederived = <<>>

Derive ==
    /\ step = "input"
    /\ derived' = _safe_sheet_name(name)
    /\ step' = "derived"
    /\ UNCHANGED <<runVars, name, rederived>>

Rederive ==
    /\ step = "derived"
    /\ rederived' = _safe_sheet_name(derived)
    /\ step' = "rederived"
    /\ UNCHANGED <<runVars, name, derived>>

NameNext == Derive \/ Rederive

NameSpec == NameInit /\ [][NameNext]_vars

----------------------------------------------------------------------------
(* Vocabulary of the properties *)

\* The configured pairs, company-major.
Product(cs, as) ==
    [k \in 1..(Len(cs) * Len(as)) |->
        <<cs[((k - 1) \div Len(as)) + 1], as[((k - 1) % Len(as)) + 1]>>]

Configured == IF config.keys THEN Product(config.companies, config.apis) ELSE <<>>

RequestedPairs == [i \in DOMAIN requests |-> <<requests[i].company, requests[i].api_name>>]

\* main() has left the fetch loop.
LoopOver == pc \in {"write", "report", "done"} \/ error = "FileOperationError"

Reasons == {"auth failed", "timeout", "api error", "unexpected error"}

\* How many entries of created and failed together are those of pair p.
EntriesOf(p) ==
    LET label == Label(p[1], p[2])
        fails == {label \o ": " \o r : r \in Reasons}
    IN  Cardinality({j \in DOMAIN results.created : results.created[j] = label})
        + Cardinality({j \in DOMAIN results.failed : results.failed[j] \in fails})

Succeeded(i) == ~requests[i].reply.raises

KeyOf(i) == SheetKey(requests[i].company, requests[i].api_name)

\* The successful pairs stored over the sheet of an earlier successful pair.
Overwrote ==
    {i \in DOMAIN requests :
        Succeeded(i) /\ \E j \in 1..(i - 1) : Succeeded(j) /\ KeyOf(j) = KeyOf(i)}

StatusLines == SelectSeq(log, LAMBDA l : l.level = "summary")

\* A fetch step: one more call of api.get.
Fetched == Len(requests') = Len(requests) + 1

LastReply == requests'[Len(requests')].reply

LastLabel == Label(requests'[Len(requests')].company, requests'[Len(requests')].api_name)

LastKey == SheetKey(requests'[Len(requests')].company, requests'[Len(requests')].api_name)

----------------------------------------------------------------------------
(* Properties *)

\* C1: the GET requests issued so far are a prefix of the configured product in
\* company-major order, the loop is left only when the whole product has been
\* requested, and this whatever the earlier pairs answered.
C1_RequestsAreProduct ==
    /\ Len(requests) <= Len(Configured)
    /\ RequestedPairs = SubSeq(Configured, 1, Len(requests))
    /\ pc = "loop" => Len(requests) < Len(Configured)
    /\ LoopOver => RequestedPairs = Configured

C1_Witness ==
    /\ pc = "write"
    /\ Len(requests) = 4
    /\ requests[1].reply.raises
    /\ requests[2].reply.isa = {"ApiTimeoutError", "ApiError"}
    /\ requests[3].reply.isa = {}
    /\ requests[3].reply.raises
    /\ ~requests[4].reply.raises

\* C2: each requested pair has exactly one entry in created or failed taken
\* together, a pair not yet requested has none, the two lists together hold
\* as many entries as pairs were processed, and |companies| * |apis| once
\* the loop is over.
C2_OneEntryPerPair ==
    /\ Len(results.created) + Len(results.failed) = Len(requests)
    /\ LoopOver => Len(results.created) + Len(results.failed) = Len(companies) * Len(apis)
    /\ \A k \in DOMAIN Configured :
          EntriesOf(Configured[k]) = (IF k <= Len(requests) THEN 1 ELSE 0)

C2_Witness ==
    /\ pc = "write"
    /\ Len(requests) = 4
    /\ Len(results.created) = 2
    /\ Len(results.failed) = 2

\* C3: a fetch step whose get raises appends to failed the pair's own label
\* with the reason of the failure kind, and leaves created and the sheet map
\* as they were.
C3_FailureClassified ==
    [][(Fetched /\ LastReply.raises) =>
         /\ \E r \in Reasons :
               /\ results'.failed = Append(results.failed, LastLabel \o ": " \o r)
               /\ "ApiAuthenticationError" \in LastReply.isa => r = "auth failed"
               /\ "ApiTimeoutError" \in LastReply.isa => r = "timeout"
               /\ LastReply.isa = {"ApiError"} => r = "api error"
               /\ LastReply.isa = {} => r = "unexpected error"
         /\ results'.created = results.created
         /\ sheets' = sheets]_vars

C3_Witness ==
    /\ pc = "write"
    /\ Len(results.failed) = 4
    /\ \A e \in Raised : \E i \in DOMAIN requests : requests[i].reply.isa = e
    /\ \A i \in DOMAIN requests : requests[i].reply.raises

\* C4: a run that passed validation ends in error only when the environment
\* failed the workbook write, and a finished run has written the workbook,
\* saved the summary record with the failed entries and logged exactly one
\* status line.
C4_RunCompletes ==
    /\ error = "FileOperationError" => ioFault
    /\ pc = "done" =>
          /\ workbook.written
          /\ summaryFile.written
          /\ summaryFile.failed = results.failed
          /\ Len(StatusLines) = 1

\* C5: two different pairs that both succeeded are stored under different keys
\* of the sheet map.
C5_SheetKeysUnique ==
    \A i, j \in DOMAIN requests :
        (i # j /\ Succeeded(i) /\ Succeeded(j)) => KeyOf(i) # KeyOf(j)

\* C6 as stated: the sheets number the pairs attempted less the pairs that
\* overwrote an earlier sheet.
C6_SheetsAreAttemptedLessOverwritten ==
    LoopOver => Cardinality(DOMAIN sheets) = Len(requests) - Cardinality(Overwrote)

\* C6 amended: the sheets number the pairs that succeeded less the pairs that
\* overwrote an earlier sheet, in the sheet map and in the workbook written
\* from it.
C6_SheetsAreSucceededLessOverwritten ==
    /\ Cardinality(DOMAIN sheets) = Len(results.created) - Cardinality(Overwrote)
    /\ workbook.written =>
          Cardinality(DOMAIN workbook.sheets) = Len(results.created) - Cardinality(Overwrote)

C6_Witness ==
    /\ pc = "done"
    /\ Overwrote # {}
    /\ results.failed # <<>>
    /\ Cardinality(DOMAIN workbook.sheets) = 2

Min(a, b) == IF a < b THEN a ELSE b

\* The characters a sheet name may not hold.
Forbidden == {":", "\\", "/", "?", "*", "[", "]"}

\* The positions of s that hold an allowed character.
Kept(s) == {i \in DOMAIN s : s[i] \notin Forbidden}

\* C7: the derived name is the input's allowed characters, in their order,
\* the first 31 of them at most; so it is at most 31 long, holds no forbidden
\* character, and is empty when the input holds nothing else.
C7_StripThenCut ==
    step \in {"derived", "rederived"} =>
        LET K == Kept(name)
        IN  /\ Len(derived) = Min(31, Cardinality(K))
            /\ \A i \in K :
                  LET rank == Cardinality({j \in K : j <= i})
                  IN  rank <= 31 => derived[rank] = name[i]
            /\ Len(derived) <= 31
            /\ \A k \in DOMAIN derived : derived[k] \notin Forbidden
            /\ (\A i \in DOMAIN name : name[i] \in Forbidden) => derived = <<>>

C7_Witness ==
    /\ step = "derived"
    /\ Len(name) > 31
    /\ name[31] \in Forbidden
    /\ Cardinality(Kept(name)) > 31
    /\ Len(derived) = 31

\* C8: deriving a sheet name from a derived sheet name changes nothing.
C8_Idempotent == step = "rederived" => rederived = derived

C8_Witness ==
    /\ step = "rederived"
    /\ Len(name) > 31
    /\ \E i \in DOMAIN name : name[i] \in Forbidden
    /\ derived # name
    /\ rederived = derived

\* The rows a payload stands for: its 'value' list, the list it is, or none.
ExpectedRows(p) ==
    IF p.type = "dict" /\ p.hasValue THEN p.value
    ELSE IF p.type = "list" THEN p.items
    ELSE <<>>

\* C9: a fetch step whose get returns a payload records the pair as succeeded
\* and stores its sheet with the payload's rows; with no rows the sheet has
\* the placeholder column alone; failed is left as it was.
C9_PayloadNormalised ==
    [][(Fetched /\ ~LastReply.raises) =>
         /\ results'.created = Append(results.created, LastLabel)
         /\ results'.failed = results.failed
         /\ LastKey \in DOMAIN sheets'
         /\ sheets'[LastKey].rows = ExpectedRows(LastReply.payload)
         /\ ExpectedRows(LastReply.payload) = <<>> =>
               sheets'[LastKey].columns = {"_no_rows"}]_vars

C9_Witness ==
    /\ pc = "done"
    /\ Len(results.created) = Len(requests)
    /\ \E i, j \in DOMAIN requests :
          /\ requests[i].reply.payload.type = "none"
          /\ sheets[KeyOf(i)] = [columns |-> {"_no_rows"}, rows |-> <<>>]
          /\ requests[j].reply.payload.type = "list"
          /\ workbook.sheets[KeyOf(j)].rows = Rows(MaxRows)
          /\ MaxRows > 0

\* The status line the final Run Result calls for.
StatusText ==
    IF results.failed # <<>>
    THEN "X Completed with " \o ToString(Len(results.failed)) \o " failures: "
         \o ToString(Len(results.created)) \o " created, 0 updated, "
         \o ToString(Len(results.failed)) \o " failed"
    ELSE "V All " \o ToString(Len(results.created)) \o " operations successful: "
         \o ToString(Len(results.created)) \o " created, 0 updated"

\* Every status line logged is the one the final Run Result calls for, and the
\* success template counts all configured pairs.
StatusLineFollowsTemplate ==
    \A k \in DOMAIN StatusLines :
        /\ StatusLines[k].text = StatusText
        /\ results.failed = <<>> => Len(results.created) = Len(companies) * Len(apis)

\* C10: the status line uses the failure template exactly when a pair failed
\* and the success template with the number of succeeded pairs otherwise, and
\* a run whose loop is over and whose write the environment did not fail
\* ends with that line logged, with zero successes too.
C10_StatusLine ==
    /\ StatusLineFollowsTemplate
    /\ (LoopOver /\ pc \in {"done", "failed"} /\ ~ioFault) => Len(StatusLines) = 1

====
